---- MODULE Spec2Model ----
(***************************************************************************)
(* Vote controls of the annotation action bar.                             *)
(*                                                                         *)
(* The repository holds two variants of AnnotationActionBar:               *)
(*   - the inline variant (AnnotationActionBar.tsx) stores a vote as a tag *)
(*     vote:{like|dislike}:{userid}:{timestamp} on the voted annotation;   *)
(*   - the reply variant (part_001) stores a vote as a reply annotation    *)
(*     tagged vote:like / vote:dislike.                                    *)
(* A behaviour mounts one of the two variants (variable bar).  Strings are *)
(* TLA+ strings, so startsWith / includes / template literals are computed *)
(* on the characters, as the code computes them.  Every session's store    *)
(* mirrors the persisted annotations; a handler suspended at an await      *)
(* keeps working on the snapshot its closure captured at the click, which  *)
(* other handlers' saves and deletes make stale.                           *)
(*                                                                         *)
(* Spec runs the vote handlers, the Delete button (onDelete, which awaits  *)
(* confirm() and then the delete) and the Reply button (onReplyClick) from *)
(* annotations without vote markers; SpecLoaded runs them from any loaded  *)
(* tag list; SpecFlag runs the flag action, which shares no state with the *)
(* other handlers.  Once the voted annotation is deleted its bar is gone   *)
(* (Mounted is false), while the handlers already awaiting run on.         *)
(***************************************************************************)
EXTENDS Bags, FiniteSets, Integers, Sequences, TLC

VARIABLES
  bar,        \* which variant of the component is mounted
  persisted,  \* annotations held by the annotation service (the server)
  inflight,   \* bag of vote handler invocations awaiting save / delete
  panel,      \* panel[s]: sidebar panel opened in session s
  nextId,     \* number of the next reply annotation to be created
  toast,      \* the toastMessenger.error message of the last step, if any
  settings,   \* the sidebar settings the component was given
  flagged,    \* userids whose view of the annotation has flagged = true
  flagging    \* flagging[s]: flag calls of session s not yet settled

vars ==
  <<bar, persisted, inflight, panel, nextId, toast, settings, flagged,
    flagging>>

\* ---------------------------------------------------------------- bounds
MaxInFlight == 2
MaxReplies == 3

\* ---------------------------------------------------------------- values
Null == ""                       \* userProfile.userid of a logged-out session
Viewers == {"b", "bo"}           \* user ids; "b" is a proper prefix of "bo"
Sessions == Viewers \cup {Null}  \* a session is named by its profile's userid
VoteTypes == {"like", "dislike"}
\* values of Date.now(), in milliseconds
Nows == {1500}

TargetId == 0                    \* id of the annotation the bar is rendered for
NoId == -1                       \* id of an annotation that was never saved
TargetUser == "bo"                \* the author of that annotation, a viewer

\* `${x}` of a template literal
Template(x) == IF x = Null THEN "null" ELSE x

\* String.prototype.startsWith
StartsWith(t, prefix) ==
  /\ Len(t) >= Len(prefix)
  /\ SubSeq(t, 1, Len(prefix)) = prefix

\* Array.prototype.find, on the elements a test selects: <<>> for undefined,
\* <<x>> for the first match
First(matches) == IF matches = <<>> THEN <<>> ELSE <<Head(matches)>>

\* Array.prototype.some, on the elements a test selects
AnyOf(matches) == matches # <<>>

\* Array.prototype.includes
Includes(seq, x) == \E i \in 1..Len(seq) : seq[i] = x

\* !!x for the result of find
Truthy(opt) == opt # <<>>

\* a login check that lets every session through
isLoggedInAlways(s) == TRUE

\* store.isLoggedIn()
isLoggedIn(s) == s # Null

\* store.allAnnotations() / store.annotations() of a session
store == persisted

\* the annotation prop of the rendered component
annotation == CHOOSE a \in store : a.id = TargetId

\* the annotation is in the store, so its bar is rendered
Mounted == \E a \in store : a.id = TargetId

\* the permissions an annotation is created with: its user may update and
\* delete it
defaultPermissions(userid) == [update |-> <<userid>>, delete |-> <<userid>>]

\* permits(permissions, action, userid)
permits(permissions, action, userid) == Includes(permissions[action], userid)

Target(tags) ==
  [id |-> TargetId, user |-> TargetUser, references |-> <<>>, tags |-> tags,
   permissions |-> defaultPermissions(TargetUser)]

\* a handler invocation suspended at an await: the call awaited, what follows
\* it, the annotation prop and myExistingVote of its closure, and the payload
Op(s, type, call, next, ann, existing, payload) ==
  [session |-> s, type |-> type, call |-> call, next |-> next,
   annotation |-> ann, existing |-> existing, payload |-> payload]

InFlightCount == BagCardinality(inflight)

\* ------------------------------------------------ persistence collaborator
\* annotationsService.save: an annotation with an id replaces the persisted
\* one of that id, an annotation without one is created under a new id
NewId == nextId

Saved(anns, a) ==
  IF a.id = NoId
  THEN anns \cup {[a EXCEPT !.id = NewId]}
  ELSE {x \in anns : x.id # a.id} \cup {a}

\* annotationsService.delete
Deleted(anns, a) == {x \in anns : x.id # a.id}

\* ------------------------------------------------ inline variant
likePrefix == "vote:like:"
dislikePrefix == "vote:dislike:"

userLikeTag(tags, userId) ==
  First(SelectSeq(tags,
    LAMBDA t : StartsWith(t, likePrefix \o Template(userId))))

userDislikeTag(tags, userId) ==
  First(SelectSeq(tags,
    LAMBDA t : StartsWith(t, dislikePrefix \o Template(userId))))

likeCount(tags) == Len(SelectSeq(tags, LAMBDA t : StartsWith(t, likePrefix)))

dislikeCount(tags) ==
  Len(SelectSeq(tags, LAMBDA t : StartsWith(t, dislikePrefix)))

\* pressed={!!userLikeTag}, pressed={!!userDislikeTag}
likePressed(tags, userId) == Truthy(userLikeTag(tags, userId))
dislikePressed(tags, userId) == Truthy(userDislikeTag(tags, userId))

\* the viewer's vote as the two controls show it; the code has no tie-break,
\* so a list that matches both prefixes shows both controls pressed
viewerVote(tags, userId) ==
  IF likePressed(tags, userId) /\ dislikePressed(tags, userId) THEN "both"
  ELSE IF likePressed(tags, userId) THEN "like"
  ELSE IF dislikePressed(tags, userId) THEN "dislike"
  ELSE "none"

otherType(type) == IF type = "like" THEN "dislike" ELSE "like"

alreadyVotedSameType(tags, type, userId) ==
  IF type = "like" THEN Truthy(userLikeTag(tags, userId))
  ELSE Truthy(userDislikeTag(tags, userId))

\* Math.floor(Date.now() / 1000)
timestamp(now) == now \div 1000

\* a filter that forgets the marker of the other type
filteredTagsSameType(tags, type, userId) ==
  SelectSeq(tags, LAMBDA t :
    ~StartsWith(t, "vote:" \o type \o ":" \o Template(userId)))

filteredTags(tags, type, userId) ==
  SelectSeq(tags, LAMBDA t :
    /\ ~StartsWith(t, "vote:" \o type \o ":" \o Template(userId))
    /\ ~StartsWith(t, "vote:" \o otherType(type) \o ":" \o Template(userId)))

newTags(tags, type, userId, now) ==
  IF ~alreadyVotedSameType(tags, type, userId)
  THEN Append(filteredTags(tags, type, userId),
              "vote:" \o type \o ":" \o Template(userId) \o ":"
                \o ToString(timestamp(now)))
  ELSE filteredTags(tags, type, userId)

\* the vote buttons are rendered on every bar; the click is on the bar of
\* annotation a
handleVote(s, type, now) ==
  /\ bar = "inline"
  /\ \E a \in store :
       IF ~isLoggedIn(s)
       THEN /\ panel' = [panel EXCEPT ![s] = "loginPrompt"]
            /\ toast' = <<>>
            /\ UNCHANGED <<inflight>>
       ELSE LET op == Op(s, type, "save", "return", a, <<>>,
                         <<[a EXCEPT !.tags = newTags(a.tags, type, s, now)]>>)
            IN  /\ InFlightCount < MaxInFlight
                /\ inflight' = inflight (+) SetToBag({op})
                /\ toast' = <<>>
                /\ UNCHANGED <<panel>>
  /\ UNCHANGED <<bar, persisted, nextId>>
  /\ UNCHANGED <<settings, flagged, flagging>>

\* ------------------------------------------------ reply variant
isReply(a) == Len(a.references) > 0

isVoteAnnotation(a) ==
  AnyOf(SelectSeq(a.tags, LAMBDA t : StartsWith(t, "vote:")))

\* vote buttons on every top-level annotation, vote annotation or not
shouldShowVotingTopLevel(a) == ~isReply(a)

shouldShowVoting(a) == ~isReply(a) /\ ~isVoteAnnotation(a)

\* store.allAnnotations(): the loaded annotations, in order of creation
allAnnotations(anns) ==
  [i \in 1..Cardinality(anns) |->
    CHOOSE a \in anns : Cardinality({b \in anns : b.id < a.id}) = i - 1]

getVoteReplies(anns, a) ==
  SelectSeq(allAnnotations(anns), LAMBDA x :
    /\ Len(x.references) > 0
    /\ x.references[Len(x.references)] = a.id
    /\ AnyOf(SelectSeq(x.tags, LAMBDA t : StartsWith(t, "vote:"))))

likeCountR(voteReplies) ==
  Len(SelectSeq(voteReplies, LAMBDA r : Includes(r.tags, "vote:like")))

dislikeCountR(voteReplies) ==
  Len(SelectSeq(voteReplies, LAMBDA r : Includes(r.tags, "vote:dislike")))

myExistingVote(voteReplies, userid) ==
  First(SelectSeq(voteReplies, LAMBDA r : r.user = userid))

myVoteType(voteReplies, userid) ==
  LET mine == myExistingVote(voteReplies, userid)
  IN  IF Truthy(mine)
      THEN (IF Includes(mine[1].tags, "vote:like") THEN "like" ELSE "dislike")
      ELSE Null

Pad(n, width) ==
  LET str == ToString(n)
  IN  IF Len(str) >= width THEN str
      ELSE IF Len(str) = width - 1 THEN "0" \o str
      ELSE "00" \o str

\* new Date().toISOString(), for a clock within the first minute of the epoch
toISOString(now) ==
  "1970-01-01T00:00:" \o Pad(now \div 1000, 2) \o "." \o Pad(now % 1000, 3)
    \o "Z"

voteTags(type, userid, now) ==
  <<"vote:" \o type, "user:" \o Template(userid),
    "timestamp:" \o toISOString(now)>>

\* annotationsService.annotationFromData: a new annotation of the session's
\* user, not yet saved
annotationFromData(userid, references, tags) ==
  [id |-> NoId, user |-> userid, references |-> references, tags |-> tags,
   permissions |-> defaultPermissions(userid)]

replyAnn(a, type, userid, now) ==
  annotationFromData(userid, Append(a.references, a.id),
                     voteTags(type, userid, now))

\* every annotation of the thread is rendered with its own bar; the click is
\* on the bar of annotation a, which shows the vote buttons only if
\* shouldShowVoting
onVote(s, type, now) ==
  /\ bar = "reply"
  /\ \E a \in store :
       /\ shouldShowVoting(a)
       /\ IF ~isLoggedIn(s)
          THEN /\ panel' = [panel EXCEPT ![s] = "loginPrompt"]
               /\ toast' = <<>>
               /\ UNCHANGED <<inflight>>
          ELSE LET voteReplies == getVoteReplies(store, a)
                   mine == myExistingVote(voteReplies, s)
                   op == IF myVoteType(voteReplies, s) = type /\ Truthy(mine)
                         THEN Op(s, type, "delete", "return", a, mine, mine)
                         ELSE IF Truthy(mine)
                         THEN Op(s, type, "delete", "save", a, mine, mine)
                         ELSE Op(s, type, "save", "return", a, mine,
                                 <<replyAnn(a, type, s, now)>>)
               IN  /\ InFlightCount < MaxInFlight
                   /\ nextId + InFlightCount <= MaxReplies
                   /\ inflight' = inflight (+) SetToBag({op})
                   /\ toast' = <<>>
                   /\ UNCHANGED <<panel>>
  /\ UNCHANGED <<bar, persisted, nextId>>
  /\ UNCHANGED <<settings, flagged, flagging>>

\* ------------------------------------------------ delete and reply buttons
showDeleteAction(a, s) == permits(a.permissions, "delete", s)

\* a click on the Delete button of the bar of annotation a: the handler
\* awaits confirm() before it calls annotationsService.delete
onDelete(s) ==
  /\ \E a \in store :
       /\ showDeleteAction(a, s)
       /\ InFlightCount < MaxInFlight
       /\ inflight' = inflight (+)
            SetToBag({Op(s, Null, "confirm", "delete", a, <<>>, <<a>>)})
  /\ toast' = <<>>
  /\ UNCHANGED <<bar, persisted, panel, nextId>>
  /\ UNCHANGED <<settings, flagged, flagging>>

\* the confirm dialog of onDelete is answered
ConfirmResolves(op, confirmed) ==
  /\ op \in BagToSet(inflight)
  /\ op.call = "confirm"
  /\ inflight' =
       IF confirmed
       THEN (inflight (-) SetToBag({op})) (+)
            SetToBag({Op(op.session, op.type, "delete", "success",
                         op.annotation, op.existing, op.payload)})
       ELSE inflight (-) SetToBag({op})
  /\ toast' = <<>>
  /\ UNCHANGED <<bar, persisted, panel, nextId>>
  /\ UNCHANGED <<settings, flagged, flagging>>

\* a click on the Reply button of any rendered bar; onReply() changes
\* nothing the bar reads
onReplyClick(s) ==
  /\ store # {}
  /\ IF ~isLoggedIn(s)
     THEN panel' = [panel EXCEPT ![s] = "loginPrompt"]
     ELSE UNCHANGED <<panel>>
  /\ toast' = <<>>
  /\ UNCHANGED <<bar, persisted, inflight, nextId>>
  /\ UNCHANGED <<settings, flagged, flagging>>

\* ------------------------------------------------ completion of the awaits
Exists(anns, a) == \E x \in anns : x.id = a.id

\* what a failed call rejects with: <<>> for undefined, else the message of
\* the service's error
ErrorMessages == {<<>>, <<"Service unavailable">>}

SaveSucceeds(op) ==
  /\ op \in BagToSet(inflight)
  /\ op.call = "save"
  /\ LET a == op.payload[1]
     IN  /\ a.id # NoId => Exists(persisted, a)
         /\ persisted' = Saved(persisted, a)
         /\ nextId' = IF a.id = NoId THEN nextId + 1 ELSE nextId
  /\ inflight' = inflight (-) SetToBag({op})
  /\ toast' = <<>>
  /\ UNCHANGED <<bar, panel>>
  /\ UNCHANGED <<settings, flagged, flagging>>

\* the catch block of the handler op belongs to.  onDelete reads
\* err.message without optional chaining: on a rejection with undefined the
\* catch block throws and no toast is issued
catch(op, err) ==
  IF op.next = "success" THEN err
  ELSE IF bar = "inline" THEN <<"Failed to " \o op.type \o " annotation">>
  ELSE IF err # <<>> THEN err
  ELSE <<"Failed to record vote">>

SaveFails(op, err) ==
  /\ op \in BagToSet(inflight)
  /\ op.call = "save"
  /\ inflight' = inflight (-) SetToBag({op})
  /\ toast' = catch(op, err)
  /\ UNCHANGED <<bar, persisted, panel, nextId>>
  /\ UNCHANGED <<settings, flagged, flagging>>

DeleteSucceeds(op, now) ==
  /\ op \in BagToSet(inflight)
  /\ op.call = "delete"
  /\ Exists(persisted, op.payload[1])
  /\ persisted' = Deleted(persisted, op.payload[1])
  /\ inflight' =
       IF op.next # "save" THEN inflight (-) SetToBag({op})
       ELSE (inflight (-) SetToBag({op})) (+)
            SetToBag({Op(op.session, op.type, "save", "return", op.annotation,
                         op.existing,
                         <<replyAnn(op.annotation, op.type, op.session, now)>>)})
  /\ toast' = <<>>
  /\ UNCHANGED <<bar, panel, nextId>>
  /\ UNCHANGED <<settings, flagged, flagging>>

\* a catch that swallows the failed delete and goes on to the save
DeleteFailsThenSaves(op, err) ==
  /\ op \in BagToSet(inflight)
  /\ op.call = "delete"
  /\ inflight' =
       IF op.next # "save" THEN inflight (-) SetToBag({op})
       ELSE (inflight (-) SetToBag({op})) (+)
            SetToBag({Op(op.session, op.type, "save", "return", op.annotation,
                         op.existing,
                         <<replyAnn(op.annotation, op.type, op.session,
                                    CHOOSE now \in Nows : TRUE)>>)})
  /\ toast' = catch(op, err)
  /\ UNCHANGED <<bar, persisted, panel, nextId>>
  /\ UNCHANGED <<settings, flagged, flagging>>

DeleteFails(op, err) ==
  /\ op \in BagToSet(inflight)
  /\ op.call = "delete"
  /\ inflight' = inflight (-) SetToBag({op})
  /\ toast' = catch(op, err)
  /\ UNCHANGED <<bar, persisted, panel, nextId>>
  /\ UNCHANGED <<settings, flagged, flagging>>

\* ------------------------------------------------ flagging
\* values of a service's allowFlagging: absent, true or false
AllowFlaggingValues == {"undefined", "true", "false"}

\* settings without a service, and settings whose first service carries
\* each value of allowFlagging
SettingsValues ==
  {[services |-> <<>>]}
    \cup {[services |-> <<[allowFlagging |-> v]>>] :
            v \in AllowFlaggingValues}

\* serviceConfig(settings): the first configured service, or null
serviceConfig(config) ==
  IF config.services = <<>> THEN <<>> ELSE <<config.services[1]>>

flaggingEnabled(config) ==
  LET service == serviceConfig(config)
  IN  IF Truthy(service) /\ service[1].allowFlagging = "false" THEN FALSE
      ELSE TRUE

\* a bar that also offers the flag action to the annotation's author
showFlagActionToAuthor(s) == flaggingEnabled(settings) /\ s # Null

showFlagAction(s) ==
  /\ flaggingEnabled(settings)
  /\ s # Null
  /\ s # annotation.user

\* annotation.flagged, as session s sees the annotation
annotationFlagged(s) == s \in flagged

\* a click on the flag button, which is rendered with onClick={onFlag} only
\* while showFlagAction && !annotation.flagged
onFlag(s) ==
  /\ showFlagAction(s)
  /\ ~annotationFlagged(s)
  /\ flagging[s] < MaxInFlight
  /\ flagging' = [flagging EXCEPT ![s] = @ + 1]
  /\ toast' = <<>>
  /\ UNCHANGED <<bar, persisted, inflight, panel, nextId, settings, flagged>>

\* annotationsService.flag resolves: the annotation is flagged for the user
FlagSucceeds(s) ==
  /\ flagging[s] > 0
  /\ flagging' = [flagging EXCEPT ![s] = @ - 1]
  /\ flagged' = flagged \cup {s}
  /\ toast' = <<>>
  /\ UNCHANGED <<bar, persisted, inflight, panel, nextId, settings>>

FlagFails(s) ==
  /\ flagging[s] > 0
  /\ flagging' = [flagging EXCEPT ![s] = @ - 1]
  /\ toast' = <<"Flagging annotation failed">>
  /\ UNCHANGED <<bar, persisted, inflight, panel, nextId, settings, flagged>>

\* ------------------------------------------------ specification
\* a topical tag that starts with "vote:like" but is no vote marker
TopicalTagLists == {<<>>, <<"vote:liked">>}

\* an ordinary reply of viewer "b" to the target, carrying the topical tag
CommentReply ==
  [id |-> 1, user |-> "b", references |-> <<TargetId>>,
   tags |-> <<"vote:liked">>, permissions |-> defaultPermissions("b")]

InitialAnnotations ==
  {{Target(tags)} : tags \in TopicalTagLists}
    \cup {{Target(<<>>), CommentReply}}

\* no service configured, nobody flagged the annotation, no flag call awaited
FlagIdle ==
  /\ settings = [services |-> <<>>]
  /\ flagged = {}
  /\ flagging = [s \in Sessions |-> 0]

Init ==
  /\ bar \in {"inline", "reply"}
  /\ persisted \in InitialAnnotations
  /\ inflight = EmptyBag
  /\ panel = [s \in Sessions |-> Null]
  /\ nextId = 2
  /\ toast = <<>>
  /\ FlagIdle

Next ==
  \/ \E s \in Sessions, type \in VoteTypes, now \in Nows :
       handleVote(s, type, now)
  \/ \E s \in Sessions, type \in VoteTypes, now \in Nows :
       onVote(s, type, now)
  \/ \E op \in BagToSet(inflight) : SaveSucceeds(op)
  \/ \E op \in BagToSet(inflight), err \in ErrorMessages : SaveFails(op, err)
  \/ \E op \in BagToSet(inflight), now \in Nows : DeleteSucceeds(op, now)
  \/ \E op \in BagToSet(inflight), err \in ErrorMessages :
       DeleteFails(op, err)
  \/ \E s \in Sessions : onDelete(s)
  \/ \E op \in BagToSet(inflight), confirmed \in BOOLEAN :
       ConfirmResolves(op, confirmed)
  \/ \E s \in Sessions : onReplyClick(s)

Spec == Init /\ [][Next]_vars

\* tag lists as the service may hand them over from an earlier writer: a like
\* and a dislike marker of viewer "b" together, in either order
DoubleVoteTagLists ==
  {<<"vote:like:b:1", "vote:dislike:b:2">>,
   <<"vote:dislike:b:2", "vote:like:b:1">>}

LoadedAnnotations ==
  InitialAnnotations \cup {{Target(tags)} : tags \in DoubleVoteTagLists}

InitLoaded ==
  /\ bar \in {"inline", "reply"}
  /\ persisted \in LoadedAnnotations
  /\ inflight = EmptyBag
  /\ panel = [s \in Sessions |-> Null]
  /\ nextId = 2
  /\ toast = <<>>
  /\ FlagIdle

\* the same handlers, started on any loaded annotation
SpecLoaded == InitLoaded /\ [][Next]_vars

\* the flag action, on a target written by a viewer or by somebody else,
\* under every service configuration; the vote handlers neither read nor
\* write what the flag action depends on, and are left out
Authors == Viewers \cup {"a"}

AuthoredBy(user) ==
  [Target(<<>>) EXCEPT !.user = user,
                       !.permissions = defaultPermissions(user)]

InitFlag ==
  /\ bar \in {"inline", "reply"}
  /\ \E user \in Authors :
       /\ persisted = {AuthoredBy(user)}
       /\ flagged \in SUBSET (Viewers \ {user})
  /\ settings \in SettingsValues
  /\ flagging = [s \in Sessions |-> 0]
  /\ inflight = EmptyBag
  /\ panel = [s \in Sessions |-> Null]
  /\ nextId = 2
  /\ toast = <<>>

NextFlag ==
  \/ \E s \in Sessions : onFlag(s)
  \/ \E s \in Sessions : FlagSucceeds(s)
  \/ \E s \in Sessions : FlagFails(s)

SpecFlag == InitFlag /\ [][NextFlag]_vars

\* ------------------------------------------------ vocabulary of the claims
\* the invocations that left the awaiting handlers in a step
Completed == BagToSet(inflight (-) inflight')

\* the invocations that came to await a call in a step
Started == BagToSet(inflight' (-) inflight)

Char(str, i) == SubSeq(str, i, i)

Digits == {"0", "1", "2", "3", "4", "5", "6", "7", "8", "9"}

IsDigits(str) == Len(str) > 0 /\ \A i \in 1..Len(str) : Char(str, i) \in Digits

\* position of the last colon of a string, 0 if it has none
LastColon(str) ==
  LET at == {i \in 1..Len(str) : Char(str, i) = ":"}
  IN  IF at = {} THEN 0 ELSE CHOOSE i \in at : \A j \in at : j <= i

MarkerPrefix(type) == "vote:" \o type \o ":"

\* tag has the form vote:{type}:{userid}:{timestamp}
IsMarker(tag, type) ==
  /\ StartsWith(tag, MarkerPrefix(type))
  /\ LastColon(tag) > Len(MarkerPrefix(type)) + 1
  /\ IsDigits(SubSeq(tag, LastColon(tag) + 1, Len(tag)))

\* the userid segment of a marker of the given type
UseridSegment(tag, type) ==
  SubSeq(tag, Len(MarkerPrefix(type)) + 1, LastColon(tag) - 1)

IsMarkerOf(tag, type, userId) ==
  IsMarker(tag, type) /\ UseridSegment(tag, type) = userId

IsVoteOf(tag, userId) == \E type \in VoteTypes : IsMarkerOf(tag, type, userId)

TypeCount(tags, type) ==
  IF type = "like" THEN likeCount(tags) ELSE dislikeCount(tags)

\* the persisted tag list of the annotation op voted on, after the step
TagsAfter(op) == (CHOOSE a \in persisted' : a.id = op.annotation.id).tags

\* the save of an inline vote click is resolved in this step
InlineSaved(op) == bar = "inline" /\ SaveSucceeds(op)

\* a save or delete awaited by a handler is rejected in this step
Rejected(op) ==
  \E err \in ErrorMessages : SaveFails(op, err) \/ DeleteFails(op, err)

\* ------------------------------------------------ claims
\* C1 (toggle law, inline): when the save of a click of the type the viewer
\* is derived to have voted succeeds, re-derivation on the persisted tag list
\* gives the viewer no vote, the count of that type exactly 1 lower than on
\* the list the click was computed from, and the other count unchanged.
C1_ToggleLaw ==
  [][\A op \in BagToSet(inflight) :
       (InlineSaved(op)
          /\ viewerVote(op.annotation.tags, op.session) = op.type)
       => LET before == op.annotation.tags
              after == TagsAfter(op)
          IN  /\ viewerVote(after, op.session) = "none"
              /\ TypeCount(after, op.type) = TypeCount(before, op.type) - 1
              /\ TypeCount(after, otherType(op.type))
                   = TypeCount(before, otherType(op.type))]_vars

\* C2 (switch law, inline): when the save of a click of the type opposite to
\* the viewer's derived vote succeeds, the viewer's derived vote is the
\* requested type, its count is 1 higher and the other count 1 lower, and
\* the persisted tag list never holds a like and a dislike marker of the
\* viewer together.
C2_SwitchLaw ==
  [][\A op \in BagToSet(inflight) :
       (InlineSaved(op)
          /\ viewerVote(op.annotation.tags, op.session) = otherType(op.type))
       => LET before == op.annotation.tags
              after == TagsAfter(op)
          IN  /\ viewerVote(after, op.session) = op.type
              /\ TypeCount(after, op.type) = TypeCount(before, op.type) + 1
              /\ TypeCount(after, otherType(op.type))
                   = TypeCount(before, otherType(op.type)) - 1
              /\ ~(/\ AnyOf(SelectSeq(after,
                          LAMBDA t : IsMarkerOf(t, "like", op.session)))
                   /\ AnyOf(SelectSeq(after,
                          LAMBDA t : IsMarkerOf(t, "dislike", op.session))))
    ]_vars

\* C3 (inline): every persisted tag list holds, for each viewer id, at most
\* one tag of the form vote:{like|dislike}:{viewerid}:{timestamp}.
C3_AtMostOneMarkerPerViewer ==
  bar = "inline" =>
    \A a \in persisted, v \in Viewers :
      Len(SelectSeq(a.tags, LAMBDA t : IsVoteOf(t, v))) <= 1

\* both viewers have a marker persisted while a save computed from another,
\* stale tag list is still awaited
C3_Witness ==
  /\ bar = "inline"
  /\ \E a \in persisted :
       /\ \A v \in Viewers :
            Len(SelectSeq(a.tags, LAMBDA t : IsVoteOf(t, v))) = 1
       /\ \E op \in BagToSet(inflight) :
            /\ op.call = "save"
            /\ op.annotation.id = a.id
            /\ op.annotation.tags # a.tags

\* the awaited saves and deletes of vote clicks
VoteMutations == {op \in BagToSet(inflight) : op.type \in VoteTypes}

\* the vote-replies to the target, as the reply variant derives them
PersistedVoteReplies == getVoteReplies(persisted, annotation)

\* a reply that carries the tag vote:like or vote:dislike
IsVoteReply(r) == Includes(r.tags, "vote:like") \/ Includes(r.tags, "vote:dislike")

\* C4 (reply): in every reachable state there is at most one vote-reply to
\* the parent whose user is a given viewer.
C4_OneVoteReplyPerViewer ==
  (bar = "reply" /\ Mounted) =>
    \A v \in Viewers :
      Len(SelectSeq(PersistedVoteReplies, LAMBDA r : r.user = v)) <= 1

\* C5 (both variants): at most one vote mutation on the annotation is awaited
\* at any time.
C5_SingleMutationInFlight ==
  \A op \in VoteMutations : VoteMutations = {op} /\ inflight[op] = 1

\* C6 (fresh-vote rule, inline): when the tag list holds no vote marker of
\* the viewer, the click's save persists the previous tag list, unchanged and
\* in order, followed by exactly one new tag
\* vote:{type}:{viewerid}:{timestamp}.
C6_FreshVoteAppends ==
  [][\A op \in BagToSet(inflight) :
       (InlineSaved(op)
          /\ ~AnyOf(SelectSeq(op.annotation.tags,
                            LAMBDA t : IsVoteOf(t, op.session))))
       => LET before == op.annotation.tags
              after == TagsAfter(op)
          IN  /\ Len(after) = Len(before) + 1
              /\ SubSeq(after, 1, Len(before)) = before
              /\ IsMarkerOf(after[Len(after)], op.type, op.session)]_vars

\* C7 (both variants): a failed save or delete of a vote click leaves the
\* persisted annotations as they are and issues an error notification, and
\* the vote-reply the viewer had when clicking is still persisted after a
\* failed save.
C7_FailureKeepsVoteState ==
  [][\A op \in VoteMutations :
       Rejected(op) =>
         /\ persisted' = persisted
         /\ toast' # <<>>
         /\ (op.call = "save" /\ op.existing # <<>>
               /\ IsVoteReply(op.existing[1]))
            => op.existing[1] \in persisted']_vars

\* C8 (both variants): a vote click in a session that is not logged in opens
\* the login prompt and starts no save, no delete and no annotation, issues
\* no error notification and leaves the persisted annotations unchanged.
C8_LoggedOutClickOnlyPrompts ==
  [][(\E type \in VoteTypes, now \in Nows :
        handleVote(Null, type, now) \/ onVote(Null, type, now)) =>
       /\ panel' = [panel EXCEPT ![Null] = "loginPrompt"]
       /\ toast' = <<>>
       /\ UNCHANGED <<persisted, inflight, nextId>>]_vars

\* the login prompt is open in the logged-out session, in which a vote
\* button is rendered, while a viewer's vote is being saved and nothing is
\* awaited for the logged-out session
C8_Witness ==
  /\ panel[Null] = "loginPrompt"
  /\ \E a \in store : bar = "inline" \/ shouldShowVoting(a)
  /\ \E op \in VoteMutations : op.call = "save"
  /\ \A op \in BagToSet(inflight) : op.session # Null

\* C9 (both variants): without matching markers the derived state is
\* likeCount = 0, dislikeCount = 0 and no vote control pressed, for every
\* viewer id.
C9_NoMarkersDeriveNone ==
  \A s \in Sessions :
    /\ bar = "inline" =>
         \A a \in persisted :
           (/\ ~AnyOf(SelectSeq(a.tags, LAMBDA t : StartsWith(t, likePrefix)))
            /\ ~AnyOf(SelectSeq(a.tags,
                        LAMBDA t : StartsWith(t, dislikePrefix))))
           => /\ likeCount(a.tags) = 0
              /\ dislikeCount(a.tags) = 0
              /\ ~likePressed(a.tags, s)
              /\ ~dislikePressed(a.tags, s)
    /\ (bar = "reply"
          /\ Mounted
          /\ \A r \in persisted :
               (isReply(r) /\ r.references[Len(r.references)] = TargetId)
               => ~IsVoteReply(r))
       => /\ likeCountR(PersistedVoteReplies) = 0
          /\ dislikeCountR(PersistedVoteReplies) = 0
          /\ myVoteType(PersistedVoteReplies, s) = Null

\* C10 (inline): the viewer is derived as having voted like (dislike) exactly
\* when some like (dislike) marker has a userid segment equal to the viewer
\* id, and a vote click of the viewer removes no marker of another user id.
C10_ExactUseridMatch ==
  bar = "inline" =>
    /\ \A a \in persisted, v \in Viewers :
         /\ likePressed(a.tags, v)
              <=> AnyOf(SelectSeq(a.tags,
                          LAMBDA t : IsMarkerOf(t, "like", v)))
         /\ dislikePressed(a.tags, v)
              <=> AnyOf(SelectSeq(a.tags,
                          LAMBDA t : IsMarkerOf(t, "dislike", v)))
    /\ \A op \in VoteMutations :
         \A i \in 1..Len(op.annotation.tags) :
           LET t == op.annotation.tags[i]
           IN  (\E type \in VoteTypes : IsMarker(t, type))
                 /\ ~IsVoteOf(t, op.session)
               => Includes(op.payload[1].tags, t)

\* C11 (inline): on every tag list that holds a like and a dislike marker of
\* the same viewer, in either order, the like control is pressed and the
\* dislike control is not, and a like click of that viewer is a retraction:
\* the tag list it saves holds no marker of the viewer.
C11_LikeTakesPrecedence ==
  bar = "inline" =>
    \A a \in persisted, v \in Viewers :
      (/\ AnyOf(SelectSeq(a.tags, LAMBDA t : IsMarkerOf(t, "like", v)))
       /\ AnyOf(SelectSeq(a.tags, LAMBDA t : IsMarkerOf(t, "dislike", v))))
      => /\ likePressed(a.tags, v)
         /\ ~dislikePressed(a.tags, v)
         /\ \A now \in Nows :
              ~AnyOf(SelectSeq(newTags(a.tags, "like", v, now),
                       LAMBDA t : IsVoteOf(t, v)))

\* the service configuration does not set allowFlagging to false
FlaggingAllowed ==
  settings.services = <<>> \/ settings.services[1].allowFlagging # "false"

\* flagging is allowed, the session has a userid and it is not the author's
MayFlag(s) == FlaggingAllowed /\ s # Null /\ s # annotation.user

\* C12 (both variants): the flag action is offered to a session exactly when
\* flagging is allowed by the service configuration, the session has a
\* userid and that userid is not the annotation's author; no flag call is
\* ever started or awaited by a logged-out session or by the author.
C12_FlagOnlyForOtherUsers ==
  \A s \in Sessions :
    /\ showFlagAction(s) <=> MayFlag(s)
    /\ flagging[s] > 0 => MayFlag(s)

\* a viewer's flag call is awaited on an annotation written by the other
\* viewer, under a service configuration that names allowFlagging; neither
\* the author nor the logged-out session is offered the action
C12_Witness ==
  /\ \E s \in Viewers : flagging[s] > 0 /\ s # annotation.user
  /\ annotation.user \in Viewers
  /\ settings.services # <<>>
  /\ ~showFlagAction(annotation.user)
  /\ ~showFlagAction(Null)

\* C13 (reply): the save of a switch, i.e. of a click made while the viewer
\* had a vote-reply of the other type, is issued only in the step in which
\* the delete of that vote-reply by the same click succeeds; a failed delete
\* issues no save and changes no annotation; and when the new vote-reply is
\* saved the old one is not persisted.
C13_DeleteBeforeSave ==
  [][bar = "reply" =>
       /\ \A op \in Started :
            (op.call = "save" /\ op.existing # <<>>)
            => /\ \E d \in Completed :
                    /\ d.call = "delete" /\ d.next = "save"
                    /\ d.session = op.session /\ d.type = op.type
                    /\ d.existing = op.existing
                    /\ \E now \in Nows : DeleteSucceeds(d, now)
               /\ Exists(persisted, op.existing[1])
               /\ ~Exists(persisted', op.existing[1])
       /\ \A op \in BagToSet(inflight) :
            (\E err \in ErrorMessages : DeleteFails(op, err))
            => Started = {} /\ persisted' = persisted
       /\ \A op \in BagToSet(inflight) :
            (SaveSucceeds(op) /\ op.existing # <<>>)
            => /\ ~Exists(persisted, op.existing[1])
               /\ ~Exists(persisted', op.existing[1])]_vars

\* the delete of a viewer's like-reply has succeeded and the save of the
\* dislike-reply that replaces it is awaited; no vote-reply of the viewer is
\* persisted
C13_Witness ==
  /\ bar = "reply"
  /\ Mounted
  /\ \E op \in BagToSet(inflight) :
       /\ op.call = "save"
       /\ op.type = "dislike"
       /\ op.existing # <<>>
       /\ Includes(op.existing[1].tags, "vote:like")
       /\ ~Exists(persisted, op.existing[1])
       /\ myExistingVote(PersistedVoteReplies, op.session) = <<>>

\* a top-level annotation none of whose tags starts with vote:
IsVotable(a) ==
  /\ a.references = <<>>
  /\ \A i \in 1..Len(a.tags) : ~StartsWith(a.tags[i], "vote:")

\* the awaited saves of onVote
AwaitedSaves ==
  {op \in BagToSet(inflight) : op.call = "save" /\ op.type \in VoteTypes}

\* C14 (reply): the vote buttons are shown on an annotation exactly when its
\* references are empty and none of its tags starts with vote:; every
\* vote-reply onVote is about to save refers last to the annotation whose
\* bar was clicked, which was top-level and no vote annotation; and the last
\* reference of every persisted vote-reply is no reply, and an annotation
\* that is top-level and no vote annotation as long as it is persisted.
C14_VotesOnlyOnTopLevel ==
  bar = "reply" =>
    /\ \A a \in persisted : shouldShowVoting(a) <=> IsVotable(a)
    /\ \A op \in AwaitedSaves :
         LET r == op.payload[1]
         IN  /\ IsVoteReply(r)
             /\ isReply(r)
             /\ r.references[Len(r.references)] = op.annotation.id
             /\ IsVotable(op.annotation)
    /\ \A r \in persisted :
         IsVoteReply(r)
         => /\ isReply(r)
            /\ \A parent \in persisted :
                 parent.id = r.references[Len(r.references)]
                 => IsVotable(parent)
            /\ \A other \in persisted :
                 isReply(other)
                 => other.id # r.references[Len(r.references)]

\* a vote-reply to the target is persisted next to an ordinary reply tagged
\* vote:liked, and neither of the two replies shows vote buttons
C14_Witness ==
  /\ bar = "reply"
  /\ Mounted
  /\ CommentReply \in persisted
  /\ ~shouldShowVoting(CommentReply)
  /\ \E r \in persisted :
       /\ IsVoteReply(r)
       /\ r.references = <<TargetId>>
       /\ ~shouldShowVoting(r)

====
